---- MODULE Spec2Model ----
(***************************************************************************)
(* Model of ElixirFormatter.py: a Sublime Text plugin that, on every      *)
(* pre-save event, pipes the buffer of an Elixir view through             *)
(* `mix format -` and applies the result to the buffer.                   *)
(*                                                                         *)
(* Strings of the program (paths, buffer text, subprocess output) are     *)
(* sequences of one-character strings, so that str.replace, `in`,         *)
(* os.path.dirname, os.path.splitext, re.sub and the SYNTAX_ERROR_RE      *)
(* search are computed character by character as Python computes them.    *)
(***************************************************************************)
EXTENDS Integers, Sequences, FiniteSets, TLC

\* ---------------------------------------------------------------- bounds
\* longest buffer text / formatter output explored
MaxLen == 2
\* deepest directory nesting of the saved file
MaxDepth == 3

\* ------------------------------------------------------ string constants
Slash == <<"/">>
MixExs == <<"m", "i", "x", ".", "e", "x", "s">>
CheckResultPrefix == <<"C", "h", "e", "c", "k", " ", "r", "e", "s", "u", "l", "t", ":", " ">>
CheckResultFalse == <<"C", "h", "e", "c", "k", " ", "r", "e", "s", "u", "l", "t", ":", " ", "f", "a", "l", "s", "e">>
StrTrue == <<"t", "r", "u", "e">>
StrFalse == <<"f", "a", "l", "s", "e">>
ElixirWord == <<"E", "l", "i", "x", "i", "r">>
ElixirSyntax == <<"P", "a", "c", "k", "a", "g", "e", "s", "/", "E", "l", "i", "x", "i", "r", "/", "E", "l", "i", "x", "i", "r", ".", "t", "m", "L", "a", "n", "g", "u", "a", "g", "e">>
PlainSyntax == <<"P", "a", "c", "k", "a", "g", "e", "s", "/", "T", "e", "x", "t", "/", "P", "l", "a", "i", "n", " ", "t", "e", "x", "t", ".", "t", "m", "L", "a", "n", "g", "u", "a", "g", "e">>
StatusSep == <<" ", "-", " ">>
FileFormatted == <<"f", "i", "l", "e", " ", "f", "o", "r", "m", "a", "t", "t", "e", "d">>
PluginCmd == <<"e", "l", "i", "x", "i", "r", "_", "f", "o", "r", "m", "a", "t", "t", "e", "r", "_", "f", "o", "r", "m", "a", "t", "_", "f", "i", "l", "e">>
DetectIndentation == <<"d", "e", "t", "e", "c", "t", "_", "i", "n", "d", "e", "n", "t", "a", "t", "i", "o", "n">>
FilesAreEqual == <<"f", "i", "l", "e", "s", " ", "a", "r", "e", " ", "e", "q", "u", "a", "l">>

\* ------------------------------------------------------- string helpers
Max(S) == CHOOSE x \in S : \A y \in S : y <= x
Min(S) == CHOOSE x \in S : \A y \in S : x <= y

\* s[i], or "" outside the string
Char(s, i) == IF i \in 1..Len(s) THEN s[i] ELSE ""

\* the class \s of module re
IsSpace(c) == c \in {" ", "\n", "\t"}

\* the class \d of module re
IsDigit(c) == c \in {"0", "1", "2", "3", "4", "5", "6", "7", "8", "9"}

DigitVal(c) ==
  CASE c = "0" -> 0 [] c = "1" -> 1 [] c = "2" -> 2 [] c = "3" -> 3 [] c = "4" -> 4
    [] c = "5" -> 5 [] c = "6" -> 6 [] c = "7" -> 7 [] c = "8" -> 8 [] c = "9" -> 9

\* int(s) for a string of decimal digits
RECURSIVE int(_)
int(s) == IF s = <<>> THEN 0 ELSE 10 * int(SubSeq(s, 1, Len(s) - 1)) + DigitVal(s[Len(s)])

\* sub occurs in s at index i
StartsAt(s, sub, i) ==
  /\ i >= 1
  /\ i + Len(sub) - 1 <= Len(s)
  /\ SubSeq(s, i, i + Len(sub) - 1) = sub

\* str.find(sub, from): the first index >= from where sub occurs, 0 when none
Find(s, sub, from) ==
  LET hits == {i \in from..Len(s) : StartsAt(s, sub, i)}
  IN  IF hits = {} THEN 0 ELSE Min(hits)

\* str.rfind(c): the last index of character c, 0 when none
RFind(s, c) ==
  LET hits == {i \in 1..Len(s) : s[i] = c}
  IN  IF hits = {} THEN 0 ELSE Max(hits)

\* Python's `sub in s`
Contains(sub, s) == \E i \in 1..(Len(s) + 1) : StartsAt(s, sub, i)

\* str.replace(old, new): every non-overlapping occurrence, left to right
RECURSIVE ReplaceFrom(_, _, _, _)
ReplaceFrom(s, old, new, from) ==
  LET i == Find(s, old, from)
  IN  IF i = 0
      THEN SubSeq(s, from, Len(s))
      ELSE SubSeq(s, from, i - 1) \o new \o ReplaceFrom(s, old, new, i + Len(old))

str_replace(s, old, new) == ReplaceFrom(s, old, new, 1)

\* str.rstrip("/")
rstrip_slash(s) ==
  LET keep == {i \in 1..Len(s) : s[i] # "/"}
  IN  SubSeq(s, 1, IF keep = {} THEN 0 ELSE Max(keep))

\* -------------------------------------------------------------- os.path
\* (variant: the head up to the last slash, the slash kept)
dirname_keeping_slash(p) == SubSeq(p, 1, RFind(p, "/"))

\* posixpath.dirname
dirname(p) ==
  LET head == SubSeq(p, 1, RFind(p, "/"))
  IN  IF head # <<>> /\ (\E k \in 1..Len(head) : head[k] # "/")
      THEN rstrip_slash(head)
      ELSE head

\* (variant: the components put together without a separator)
path_join_nosep(a, b) == a \o b

\* posixpath.join of two components
path_join(a, b) ==
  IF Char(b, 1) = "/" THEN b
  ELSE IF a = <<>> \/ a[Len(a)] = "/" THEN a \o b
  ELSE a \o Slash \o b

\* posixpath.splitext(p)[1]: the extension with its dot; a leading dot of the
\* last component starts no extension
splitext_ext(p) ==
  LET sepIndex == RFind(p, "/")
      dotIndex == RFind(p, ".")
  IN  IF /\ dotIndex > sepIndex
         /\ \E k \in (sepIndex + 1)..(dotIndex - 1) : p[k] # "."
      THEN SubSeq(p, dotIndex, Len(p))
      ELSE <<>>

\* (variant: everything after the last dot of the path)
extension_after_last_dot(p) == SubSeq(p, RFind(p, ".") + 1, Len(p))

\* os.path.splitext(file_name)[1][1:]
extension_of(p) == LET e == splitext_ext(p) IN SubSeq(e, 2, Len(e))

\* -------------------------------------------------------- SYNTAX_ERROR_RE
\* ^\*\*\s\((.+)\)\s(.+)\:(\d+)\:\s(.+)$  with re.MULTILINE: ^ matches at the
\* start of a line, $ at the end of one, and . matches anything but "\n".
LineStart(t, s) == s = 1 \/ t[s - 1] = "\n"
LineEnd(t, e) == e = Len(t) \/ t[e + 1] = "\n"
NoNewline(t, i, j) == \A k \in i..j : t[k] # "\n"
AllDigits(t, i, j) == \A k \in i..j : IsDigit(t[k])

\* positions where  ^\*\*\s\(  matches
ReStarts(t) ==
  {s \in 1..Len(t) : /\ LineStart(t, s)
                     /\ Char(t, s) = "*" /\ Char(t, s + 1) = "*"
                     /\ IsSpace(Char(t, s + 2))
                     /\ Char(t, s + 3) = "("}
\* ends of group 1  (.+)\)\s
ReEnds1(t, s) ==
  {e \in (s + 4)..Len(t) : /\ NoNewline(t, s + 4, e)
                           /\ Char(t, e + 1) = ")"
                           /\ IsSpace(Char(t, e + 2))}
\* ends of group 2  (.+)\:
ReEnds2(t, e1) ==
  {e \in (e1 + 3)..Len(t) : NoNewline(t, e1 + 3, e) /\ Char(t, e + 1) = ":"}
\* ends of group 3  (\d+)\:\s
ReEnds3(t, e2) ==
  {e \in (e2 + 2)..Len(t) : /\ AllDigits(t, e2 + 2, e)
                            /\ Char(t, e + 1) = ":"
                            /\ IsSpace(Char(t, e + 2))}
\* ends of group 4  (.+)$
ReEnds4(t, e3) ==
  {e \in (e3 + 3)..Len(t) : NoNewline(t, e3 + 3, e) /\ LineEnd(t, e)}

\* every way the pattern matches: <<start, end1, end2, end3, end4>>
ReMatches(t) ==
  UNION {UNION {UNION {UNION {{<<s, e1, e2, e3, e4>> : e4 \in ReEnds4(t, e3)}
                              : e3 \in ReEnds3(t, e2)}
                       : e2 \in ReEnds2(t, e1)}
                : e1 \in ReEnds1(t, s)}
         : s \in ReStarts(t)}

\* the order the backtracking matcher tries them in: leftmost start first,
\* then every greedy group as long as possible
RePrefers(m, n) ==
  \/ m[1] < n[1]
  \/ m[1] = n[1] /\ m[2] > n[2]
  \/ m[1] = n[1] /\ m[2] = n[2] /\ m[3] > n[3]
  \/ m[1] = n[1] /\ m[2] = n[2] /\ m[3] = n[3] /\ m[4] > n[4]
  \/ m[1] = n[1] /\ m[2] = n[2] /\ m[3] = n[3] /\ m[4] = n[4] /\ m[5] >= n[5]

NoMatch == [matched |-> FALSE, group0 |-> <<>>, group1 |-> <<>>, group3 |-> <<>>, group4 |-> <<>>]

\* SYNTAX_ERROR_RE.search(text): the match object, or NoMatch for None
SYNTAX_ERROR_RE_search(text) ==
  LET all == ReMatches(text)
  IN  IF all = {} THEN NoMatch
      ELSE LET m == CHOOSE m \in all : \A n \in all : RePrefers(m, n)
           IN  [matched |-> TRUE,
                group0 |-> SubSeq(text, m[1], m[5]),
                group1 |-> SubSeq(text, m[1] + 4, m[2]),
                group3 |-> SubSeq(text, m[3] + 2, m[4]),
                group4 |-> SubSeq(text, m[4] + 3, m[5])]

\* ------------------------------------------------------------------ Utils
\* Utils.trim_trailing_ws_and_lines: re.sub(r'\s+\Z', '', val); neither
\* caller passes None
trim_trailing_ws_and_lines(val) ==
  LET keep == {i \in 1..Len(val) : ~IsSpace(val[i])}
  IN  SubSeq(val, 1, IF keep = {} THEN 0 ELSE Max(keep))

\* -------------------------------------------------- MixFormatResult/Error
\* (variant: any exit code the shell calls an ordinary one)
is_successful_lenient(exit_code) == exit_code \in {0, 1}

\* MixFormatResult.is_successful
is_successful(exit_code) == exit_code = 0

\* (variant: the output compared untrimmed)
is_changed_untrimmed(pretty_text, source_text) ==
  LET trimmed_source == trim_trailing_ws_and_lines(source_text)
  IN  trimmed_source # source_text /\ source_text # pretty_text

\* MixFormatResult.is_changed
is_changed(pretty_text, source_text) ==
  LET trimmed_pretty == trim_trailing_ws_and_lines(pretty_text)
      trimmed_source == trim_trailing_ws_and_lines(source_text)
  IN  trimmed_source # source_text /\ trimmed_source # trimmed_pretty

\* MixFormatResult.is_equal
is_equal(pretty_text, text) == ~is_changed(pretty_text, text)

\* MixFormatResult.__init__: the error is parsed only for a failed run
MixFormatResult(stdout, stderr, exit_code) ==
  [stdout |-> stdout, stderr |-> stderr, exit_code |-> exit_code,
   error |-> IF ~is_successful(exit_code)
             THEN SYNTAX_ERROR_RE_search(stderr)
             ELSE NoMatch]

\* MixFormatError.line
error_line(matches) == int(matches.group3)

\* MixFormatError.status_message
error_status_message(matches) == matches.group1 \o StatusSep \o matches.group4

\* ------------------------------------------------------------- the editor
\* view.substr(sublime.Region(a, b))
view_substr(text, a, b) == SubSeq(text, a + 1, b)

\* view.replace(edit, sublime.Region(a, b), new)
view_replace(text, a, b, new) == SubSeq(text, 1, a) \o new \o SubSeq(text, b + 1, Len(text))

\* (variant: the two calls in the other order)
restore_position_swapped(previous_position) == << previous_position, <<0, 0>> >>

\* Utils.restore_position: the viewport positions it sets, in order
restore_position(previous_position) == << <<0, 0>>, previous_position >>

\* an entry of the record of calls made to the editor and the system
Call(op, arg) == <<op, arg>>

\* ------------------------------------------------- the exclusion script
\* check_blacklisted_script_template, run by `elixir -e` in the project root:
\* prints a check result only when .formatter.exs exists and has :inputs
exclusion_script(file, formatter) ==
  IF formatter.exists /\ formatter.has_inputs
  THEN CheckResultPrefix \o (IF file \in formatter.inputs THEN StrTrue ELSE StrFalse) \o <<"\n">>
  ELSE <<>>

\* ------------------------------------------------------------ environment
DirNames == {<<"a">>}
BaseNames == {<<"y", ".", "e", "x">>, <<".", "e", "x", "s">>, <<"n", ".", "m", "d">>}
Syntaxes == {ElixirSyntax, PlainSyntax}
TextChars == {"a", " ", "\n"}
Positions == {<<0, 0>>, <<0, 1>>}

RECURSIVE SeqsUpTo(_, _)
SeqsUpTo(S, n) ==
  IF n = 0 THEN {<<>>}
  ELSE LET shorter == SeqsUpTo(S, n - 1)
       IN  shorter \cup {Append(s, x) : s \in shorter, x \in S}

Texts == SeqsUpTo(TextChars, MaxLen)

\* "/d1/d2/.../dn" for the directory names ds
RECURSIVE DirPath(_)
DirPath(ds) == IF ds = <<>> THEN <<>> ELSE Slash \o Head(ds) \o DirPath(Tail(ds))

FileNames == {DirPath(ds) \o Slash \o b : ds \in SeqsUpTo(DirNames, MaxDepth), b \in BaseNames}

\* the directories above path p, the filesystem root included
Ancestors(p) == {Slash} \cup {SubSeq(p, 1, i - 1) : i \in {j \in 2..Len(p) : p[j] = "/"}}

\* the paths of p relative to each of its ancestors
Suffixes(p) == {SubSeq(p, i + 1, Len(p)) : i \in {j \in 1..Len(p) : p[j] = "/"}}

\* the mix.exs of directory d
MixExsIn(d) == IF d = Slash THEN Slash \o MixExs ELSE d \o Slash \o MixExs

NoFormatterExs == [exists |-> FALSE, has_inputs |-> FALSE, inputs |-> {}]
FormatterConfigs(p) ==
  {NoFormatterExs, [exists |-> TRUE, has_inputs |-> FALSE, inputs |-> {}]}
    \cup {[exists |-> TRUE, has_inputs |-> TRUE, inputs |-> i]
            : i \in {{}} \cup {{s} : s \in Suffixes(p)}}

\* what `mix format -` answers for the view's content
StderrSamples == {<<"*", "*", " ", "(", "E", ")", " ", "f", ":", "1", "2", ":", " ", "r">>,
                   <<>>,
                   <<"*", "*", " ", "(", "M", "i", "x", ")", " ", "n", "o">>,
                   <<"w", "\n", "*", "*", " ", "(", "E", ")", " ", "f", ":", "3", ":", " ", "r", "\n", "z">>,
                   <<"*", "*", " ", "(", "E", ")", " ", "f", ":", "1", ":", " ", "a", ":", "2", ":", " ", "b">>,
                   <<"*", "*", " ", "(", "E", ")", " ", "f", ":", "x", ":", " ", "r">>}
Success(text) == [exit_code |-> 0, stdout |-> text, stderr |-> <<>>]
Failure(out, text) == [exit_code |-> 1, stdout |-> out, stderr |-> text]
FailureStdouts == {<<>>, <<"a", "a">>}
MixOutcomes == {Success(t) : t \in Texts} \cup {Failure(o, e) : o \in FailureStdouts, e \in StderrSamples}

\* a few of each, to go with every environment of the other kind
SampleFileNames == {<<"/", "a", "/", "y", ".", "e", "x">>}
SampleBuffer == <<"a", "\n">>
SampleOutcomes == {Success(<<"a", "a">>), Failure(<<"a", "a">>, <<"*", "*", " ", "(", "E", ")", " ", "f", ":", "1", "2", ":", " ", "r">>)}

\* ------------------------------------------------------------------ state
VARIABLES
  file_name,              \* view.file_name()
  syntax,                 \* view.settings().get("syntax")
  mix_files,              \* the mix.exs files that exist
  formatter_exs,          \* the .formatter.exs of the project root, if any
  mix_outcome,            \* the answer of the (deterministic) formatter
  buffer,                 \* the text of the view
  viewport,               \* view.viewport_position()
  pc,                     \* where the handling of the save event is
  cwd,                    \* find_project's argument
  project_root_with_mix,  \* run's locals ...
  project_root,
  file_name_rel,
  blacklisted,
  source_text,
  result,
  previous_position,
  exception,              \* the exception that ended the command, or "none"
  log,                    \* calls made while handling this save event
  prev_replaced,          \* the previous save event replaced the buffer
  buffer_at_save          \* the text of the view when the save event began

env == <<file_name, syntax, mix_files, formatter_exs, mix_outcome>>
locals == <<cwd, project_root_with_mix, project_root, file_name_rel, blacklisted,
            source_text, result, previous_position>>
history == <<prev_replaced, buffer_at_save>>
vars == <<env, buffer, viewport, pc, locals, exception, log, history>>

NoResult == MixFormatResult(<<>>, <<>>, 0)

LocalsInit ==
  /\ cwd = <<>>
  /\ project_root_with_mix = <<>>
  /\ project_root = <<>>
  /\ file_name_rel = <<>>
  /\ blacklisted = FALSE
  /\ source_text = <<>>
  /\ result = NoResult
  /\ previous_position = <<0, 0>>

\* The view being saved: every file, project layout and .formatter.exs with a
\* sample text and sample formatter answers, and every text and formatter
\* answer with a sample file (the two halves of run do not read each other's
\* inputs). The formatter is deterministic: an unedited view gets the same
\* answer at every save.
InitEnv ==
  \/ /\ file_name \in FileNames
     /\ syntax \in Syntaxes
     /\ mix_files \in SUBSET {MixExsIn(d) : d \in Ancestors(file_name)}
     /\ formatter_exs \in FormatterConfigs(file_name)
     /\ mix_outcome \in SampleOutcomes
     /\ buffer = SampleBuffer
     /\ viewport = <<0, 1>>
  \/ /\ file_name \in SampleFileNames
     /\ syntax = ElixirSyntax
     /\ mix_files = {MixExsIn(d) : d \in Ancestors(file_name) \ {Slash}}
     /\ formatter_exs = NoFormatterExs
     /\ mix_outcome \in MixOutcomes
     /\ buffer \in Texts
     /\ viewport \in Positions

Init ==
  /\ InitEnv
  /\ pc = "idle"
  /\ LocalsInit
  /\ exception = "none"
  /\ log = <<>>
  /\ prev_replaced = FALSE
  /\ buffer_at_save = buffer

Logged(op) == \E i \in 1..Len(log) : log[i][1] = op

\* ---------------------------------------------------------------- actions
\* ElixirFormatterEventListeners.on_pre_save and the command it runs,
\* ElixirFormatterFormatFileCommand.run
OnPreSave ==
  /\ pc \in {"idle", "done"}
  /\ prev_replaced' = Logged("replace")
  /\ buffer_at_save' = buffer
  /\ project_root_with_mix' = <<>>
  /\ project_root' = <<>>
  /\ file_name_rel' = <<>>
  /\ blacklisted' = FALSE
  /\ source_text' = <<>>
  /\ result' = NoResult
  /\ previous_position' = <<0, 0>>
  /\ exception' = "none"
  /\ LET extension == extension_of(file_name)
     IN  IF extension \in {<<"e", "x">>, <<"e", "x", "s">>} \/ Contains(ElixirWord, syntax)
         THEN /\ log' = <<Call("run_command", PluginCmd), Call("ElixirFormatter.run", file_name)>>
              /\ cwd' = file_name
              /\ pc' = "find_project"
         ELSE /\ log' = <<Call("run_command", PluginCmd)>>
              /\ cwd' = <<>>
              /\ pc' = "done"
  /\ UNCHANGED <<env, buffer, viewport>>

\* find_project(cwd) at the filesystem root, os.path.realpath('/'): None.
\* (cwd is never empty here, so `cwd or os.getcwd()` is cwd.)
FindProjectNone ==
  /\ pc = "find_project"
  /\ cwd = Slash
  /\ project_root_with_mix' = <<>>
  /\ pc' = "resolve_root"
  /\ UNCHANGED <<env, buffer, viewport, cwd, project_root, file_name_rel, blacklisted,
                 source_text, result, previous_position, exception, log, history>>

\* find_project in a directory that has a mix.exs: that directory
FindProjectFound ==
  /\ pc = "find_project"
  /\ cwd # Slash
  /\ path_join(cwd, MixExs) \in mix_files
  /\ project_root_with_mix' = cwd
  /\ pc' = "resolve_root"
  /\ UNCHANGED <<env, buffer, viewport, cwd, project_root, file_name_rel, blacklisted,
                 source_text, result, previous_position, exception, log, history>>

\* find_project otherwise: the same for the parent directory
FindProjectParent ==
  /\ pc = "find_project"
  /\ cwd # Slash
  /\ path_join(cwd, MixExs) \notin mix_files
  /\ cwd' = dirname(cwd)
  /\ UNCHANGED <<env, buffer, viewport, pc, project_root_with_mix, project_root,
                 file_name_rel, blacklisted, source_text, result, previous_position,
                 exception, log, history>>

\* ElixirFormatter.run: project_root and file_name_rel
ResolveRoot ==
  /\ pc = "resolve_root"
  /\ LET root == IF project_root_with_mix # <<>>
                 THEN project_root_with_mix
                 ELSE dirname(file_name)
     IN  /\ project_root' = root
         /\ file_name_rel' = str_replace(file_name, root \o Slash, <<>>)
  /\ pc' = "check_blacklisted"
  /\ UNCHANGED <<env, buffer, viewport, cwd, project_root_with_mix, blacklisted,
                 source_text, result, previous_position, exception, log, history>>

\* check_blacklisted_in_config without a .formatter.exs: None, and on to the formatter
CheckNoConfig ==
  /\ pc = "check_blacklisted"
  /\ ~formatter_exs.exists
  /\ blacklisted' = FALSE
  /\ pc' = "mix_format"
  /\ UNCHANGED <<env, buffer, viewport, cwd, project_root_with_mix, project_root,
                 file_name_rel, source_text, result, previous_position, exception,
                 log, history>>

\* check_blacklisted_in_config with a .formatter.exs: the script decides
CheckInConfig ==
  /\ pc = "check_blacklisted"
  /\ formatter_exs.exists
  /\ LET stdout == exclusion_script(file_name_rel, formatter_exs)
         skip == Contains(CheckResultFalse, stdout)
     IN  /\ blacklisted' = skip
         /\ IF skip
            THEN /\ log' = log \o <<Call("Popen", "elixir"), Call("print", file_name_rel)>>
                 /\ pc' = "done"
            ELSE /\ log' = Append(log, Call("Popen", "elixir"))
                 /\ pc' = "mix_format"
  /\ UNCHANGED <<env, buffer, viewport, cwd, project_root_with_mix, project_root,
                 file_name_rel, source_text, result, previous_position, exception,
                 history>>

\* ElixirFormatter.run reads the buffer; mix_format pipes it through `mix format -`
MixFormat ==
  /\ pc = "mix_format"
  /\ source_text' = view_substr(buffer, 0, Len(buffer))
  /\ result' = MixFormatResult(mix_outcome.stdout, mix_outcome.stderr, mix_outcome.exit_code)
  /\ log' = Append(log, Call("Popen", "mix"))
  /\ pc' = "apply"
  /\ UNCHANGED <<env, buffer, viewport, cwd, project_root_with_mix, project_root,
                 file_name_rel, blacklisted, previous_position, exception, history>>

\* a successful run whose output counts as equal: nothing to do
NoFormattingNeeded ==
  /\ pc = "apply"
  /\ is_successful(result.exit_code)
  /\ is_equal(result.stdout, source_text)
  /\ log' = Append(log, Call("print", FilesAreEqual))
  /\ pc' = "done"
  /\ UNCHANGED <<env, buffer, viewport, locals, exception, history>>

\* a successful run whose output counts as changed: replace, indent, restore
ApplyFormatted ==
  /\ pc = "apply"
  /\ is_successful(result.exit_code)
  /\ ~is_equal(result.stdout, source_text)
  /\ previous_position' = viewport
  /\ buffer' = view_replace(buffer, 0, Len(source_text), result.stdout)
  /\ LET positions == restore_position(viewport)
     IN  /\ viewport' = positions[Len(positions)]
         /\ log' = log \o <<Call("viewport_position", viewport),
                            Call("replace", result.stdout),
                            Call("run_command", DetectIndentation)>>
                       \o [i \in 1..Len(positions) |-> Call("set_viewport_position", positions[i])]
                       \o <<Call("status_message", FileFormatted)>>
  /\ pc' = "done"
  /\ UNCHANGED <<env, cwd, project_root_with_mix, project_root, file_name_rel,
                 blacklisted, source_text, result, exception, history>>

\* (variant: a failed run is tried once more before it is reported)
ReportErrorRetrying ==
  /\ pc = "apply"
  /\ ~is_successful(result.exit_code)
  /\ IF Cardinality({i \in 1..Len(log) : log[i][1] = "Popen" /\ log[i][2] = "mix"}) < 2
     THEN /\ pc' = "mix_format"
          /\ UNCHANGED <<log, exception>>
     ELSE /\ pc' = "done"
          /\ IF result.error.matched
             THEN /\ log' = log \o <<Call("print", result.error.group0),
                                     Call("goto_line", error_line(result.error)),
                                     Call("status_message", error_status_message(result.error))>>
                  /\ exception' = "none"
             ELSE /\ log' = log
                  /\ exception' = "AttributeError"
  /\ UNCHANGED <<env, buffer, viewport, locals, history>>

\* a failed run: report the parsed error; without a match, result.error's
\* properties raise AttributeError before anything is printed
ReportError ==
  /\ pc = "apply"
  /\ ~is_successful(result.exit_code)
  /\ IF result.error.matched
     THEN /\ log' = log \o <<Call("print", result.error.group0),
                             Call("goto_line", error_line(result.error)),
                             Call("status_message", error_status_message(result.error))>>
          /\ exception' = "none"
     ELSE /\ log' = log
          /\ exception' = "AttributeError"
  /\ pc' = "done"
  /\ UNCHANGED <<env, buffer, viewport, locals, history>>

Next ==
  \/ OnPreSave
  \/ FindProjectNone
  \/ FindProjectFound
  \/ FindProjectParent
  \/ ResolveRoot
  \/ CheckNoConfig
  \/ CheckInConfig
  \/ MixFormat
  \/ NoFormattingNeeded
  \/ ApplyFormatted
  \/ ReportError

Spec == Init /\ [][Next]_vars

\* find_project is a synchronous recursion: once called, its steps are taken
FindProjectStep == FindProjectNone \/ FindProjectFound \/ FindProjectParent
FairSpec == Spec /\ WF_vars(FindProjectStep)

\* ================================================================ claims
Done == pc = "done"
Calls(op) == {i \in 1..Len(log) : log[i][1] = op}
CallsWith(op, arg) == {i \in 1..Len(log) : log[i][1] = op /\ log[i][2] = arg}
MixStarted == CallsWith("Popen", "mix") # {}
ElixirStarted == CallsWith("Popen", "elixir") # {}
FormatterRan == Calls("ElixirFormatter.run") # {}
\* the run has reached the formatter's answer
Answered == pc \in {"apply", "done"} /\ MixStarted
EndsWith(s, suffix) == StartsAt(s, suffix, Len(s) - Len(suffix) + 1)

\* C1: a run that exits with code 0 and whose output differs from the buffer
\* text (both stripped of trailing whitespace) replaces the whole buffer with
\* exactly the formatter's standard output, whether or not the buffer text
\* ends in whitespace.
C1_DifferentOutputReplacesBuffer ==
  (/\ Done /\ MixStarted
   /\ result.exit_code = 0
   /\ trim_trailing_ws_and_lines(result.stdout) # trim_trailing_ws_and_lines(source_text))
  => (/\ buffer = result.stdout
      /\ CallsWith("replace", result.stdout) # {})

\* the file is among the paths the :inputs key matches, relative to the project root
ListsFile == \E r \in formatter_exs.inputs : project_root \o Slash \o r = file_name
\* the exclusion check prints "Check result: false"
Excluded == formatter_exs.exists /\ formatter_exs.has_inputs /\ ~ListsFile

\* C2: a file is skipped exactly when the project root has a .formatter.exs
\* whose :inputs do not match the file; a skipped file starts no `mix format`
\* and keeps its buffer; with no .formatter.exs, no :inputs key, or the file
\* listed, the formatter is invoked.
C2_SkippedExactlyWhenNotListed ==
  (Done /\ FormatterRan)
  => (/\ blacklisted <=> Excluded
      /\ blacklisted => (~MixStarted /\ buffer = buffer_at_save /\ Calls("replace") = {})
      /\ ~Excluded => MixStarted)

\* C3: a run that exits with a non-zero code, whatever its standard error,
\* ends with the parsed error reported: the message printed, the cursor moved
\* to the parsed line, the status message "<exception> - <reason>" issued, and
\* no unhandled exception.
C3_FailedRunReportsParsedError ==
  (Done /\ MixStarted /\ result.exit_code # 0)
  => (/\ exception = "none"
      /\ Calls("print") # {}
      /\ Calls("goto_line") # {}
      /\ Calls("status_message") # {})

\* C4: when the formatter exits with a non-zero code the buffer is left as it
\* was: no replace, no indentation detection, no viewport restore, and the
\* standard output is never written to the buffer.
C4_FailedRunLeavesBuffer ==
  (Answered /\ result.exit_code # 0)
  => (/\ buffer = buffer_at_save
      /\ buffer = source_text
      /\ Calls("replace") = {}
      /\ CallsWith("run_command", DetectIndentation) = {}
      /\ Calls("set_viewport_position") = {})

C4_Witness ==
  /\ Done /\ MixStarted
  /\ result.exit_code # 0
  /\ result.stdout # <<>> /\ result.stdout # buffer
  /\ Calls("goto_line") # {}

\* C5: when the formatter exits with code 0 and its output equals the buffer
\* text once trailing whitespace and blank lines are stripped from both, the
\* run is a no-op: no replace, no indentation detection, no viewport call, no
\* "file formatted" message; and the save that follows a save which replaced
\* the buffer changes nothing.
C5_EqualOutputIsNoOp ==
  /\ (/\ Answered
      /\ result.exit_code = 0
      /\ trim_trailing_ws_and_lines(result.stdout) = trim_trailing_ws_and_lines(source_text))
     => (/\ buffer = buffer_at_save
         /\ Calls("replace") = {}
         /\ CallsWith("run_command", DetectIndentation) = {}
         /\ Calls("viewport_position") = {}
         /\ Calls("set_viewport_position") = {}
         /\ CallsWith("status_message", FileFormatted) = {})
  /\ prev_replaced => (buffer = buffer_at_save /\ Calls("replace") = {})

C5_Witness ==
  /\ Done /\ MixStarted
  /\ result.exit_code = 0
  /\ result.stdout # source_text
  /\ trim_trailing_ws_and_lines(source_text) # source_text
  /\ trim_trailing_ws_and_lines(result.stdout) = trim_trailing_ws_and_lines(source_text)
  /\ CallsWith("print", FilesAreEqual) # {}

\* the directories above p, below the filesystem root, that hold a mix.exs
ProjectDirs(p) == {d \in Ancestors(p) \ {Slash} : MixExsIn(d) \in mix_files}
\* the nearest of them
NearestProject(p) ==
  CHOOSE d \in ProjectDirs(p) : \A e \in ProjectDirs(p) : Len(e) <= Len(d)
\* the directory p is in
OwnDirectory(p) == CHOOSE d \in Ancestors(p) : \A e \in Ancestors(p) : Len(e) <= Len(d)

\* C6: find_project terminates (a call always comes to its return, each
\* recursive call getting a strictly shorter path) and returns the nearest
\* directory above the file, below the filesystem root, that holds a mix.exs,
\* or None when there is none; run uses it as project root, or the file's own
\* directory when None is returned.
C6_FindProjectNearestEnclosing ==
  /\ (pc = "find_project") ~> (pc = "resolve_root")
  /\ [](pc = "find_project" => Len(cwd) >= 1)
  /\ [][pc = "find_project" /\ pc' = "find_project" => Len(cwd') < Len(cwd)]_vars
  /\ [](pc = "resolve_root"
        => project_root_with_mix = (IF ProjectDirs(file_name) = {} THEN <<>>
                                    ELSE NearestProject(file_name)))
  /\ [](pc \in {"check_blacklisted", "mix_format", "apply"}
        => project_root = (IF ProjectDirs(file_name) = {} THEN OwnDirectory(file_name)
                           ELSE NearestProject(file_name)))

C6_Witness ==
  /\ pc = "check_blacklisted"
  /\ Cardinality(ProjectDirs(file_name)) >= 2
  /\ project_root = NearestProject(file_name)
  /\ MixExsIn(Slash) \in mix_files

\* C7: after a format that replaced the buffer the viewport is where it was
\* read to be just before the replacement, the steps being: read the viewport
\* position, replace the buffer, detect indentation, restore the viewport
\* position, issue the "file formatted" status message.
C7_ViewportRestoredInOrder ==
  (Done /\ Calls("replace") # {})
  => \E i \in 1..Len(log) :
       /\ Len(log) = i + 5
       /\ log[i][1] = "viewport_position" /\ log[i][2] = previous_position
       /\ log[i + 1][1] = "replace" /\ log[i + 1][2] = result.stdout
       /\ log[i + 2][1] = "run_command" /\ log[i + 2][2] = DetectIndentation
       /\ log[i + 3][1] = "set_viewport_position"
       /\ log[i + 4][1] = "set_viewport_position" /\ log[i + 4][2] = previous_position
       /\ log[i + 5][1] = "status_message" /\ log[i + 5][2] = FileFormatted
       /\ viewport = previous_position

C7_Witness ==
  /\ Done /\ Calls("replace") # {}
  /\ previous_position # <<0, 0>>
  /\ viewport = previous_position

\* the last component of p, without its leading dots
BaseWithoutLeadingDots(p) ==
  LET base == SubSeq(p, RFind(p, "/") + 1, Len(p))
      first == {i \in 1..Len(base) : base[i] # "."}
  IN  IF first = {} THEN <<>> ELSE SubSeq(base, Min(first), Len(base))
\* the file is an Elixir file by its extension or by the syntax of its view
IsElixirFile ==
  \/ EndsWith(BaseWithoutLeadingDots(file_name), <<".", "e", "x">>)
  \/ EndsWith(BaseWithoutLeadingDots(file_name), <<".", "e", "x", "s">>)
  \/ \E i \in 1..(Len(syntax) - 5) : SubSeq(syntax, i, i + 5) = ElixirWord

\* C8: every pre-save event runs the format command, which formats the view
\* if and only if the file's extension is ex or exs or the syntax setting
\* contains "Elixir"; for any other file no subprocess is started, the buffer
\* is unchanged and the command does not fail.
C8_FormatsOnlyElixirFiles ==
  (pc # "idle")
  => (/\ log[1][1] = "run_command" /\ log[1][2] = PluginCmd
      /\ FormatterRan <=> IsElixirFile
      /\ ~IsElixirFile => (/\ Calls("Popen") = {}
                           /\ buffer = buffer_at_save
                           /\ exception = "none"
                           /\ Done))

C8_Witness ==
  /\ Done
  /\ ~IsElixirFile
  /\ EndsWith(file_name, <<"/", ".", "e", "x", "s">>)
  /\ Len(log) = 1

\* C9: within one save event the exclusion check (if any) is over before the
\* formatter is started, the formatter is started at most once and not again
\* after a failure, and the buffer is modified at most once and only after
\* the formatter exited with code 0.
C9_StepsOrderedAndNotRepeated ==
  /\ Cardinality(CallsWith("Popen", "elixir")) <= 1
  /\ Cardinality(CallsWith("Popen", "mix")) <= 1
  /\ Cardinality(Calls("replace")) <= 1
  /\ \A e \in CallsWith("Popen", "elixir"), m \in CallsWith("Popen", "mix") : e < m
  /\ \A r \in Calls("replace") :
       /\ result.exit_code = 0
       /\ \E m \in CallsWith("Popen", "mix") : m < r
  /\ Calls("replace") = {} => buffer = buffer_at_save

C9_Witness ==
  /\ Done
  /\ ElixirStarted /\ MixStarted
  /\ Calls("replace") # {}
  /\ buffer # buffer_at_save

\* C10: the name given to the exclusion check is the file's path relative to
\* the project root: for a file under the project root,
\* project_root + "/" + file_name_rel is the file's path, also when the
\* project root's text followed by "/" occurs again further inside the path.
C10_RelativeNameRebuildsPath ==
  (/\ pc \in {"check_blacklisted", "mix_format", "apply"}
   /\ StartsAt(file_name, project_root \o Slash, 1))
  => project_root \o Slash \o file_name_rel = file_name
====
